---- MODULE Spec2Model ----
(***************************************************************************)
(* Model of the Jenkins declarative pipeline of src/Jenkinsfile and of the *)
(* HTTP service of src/app.js that the pipeline builds and smoke-tests.    *)
(*                                                                         *)
(* Several runs of the pipeline execute on one host (agent any, no         *)
(* disableConcurrentBuilds option).  A run is a sequence of sh steps; the  *)
(* host state the steps act on is the docker daemon's set of running       *)
(* containers, the local and the registry image tagged latest, and the     *)
(* docker client's login state.                                            *)
(***************************************************************************)
EXTENDS Integers, Sequences, FiniteSets, TLC

----------------------------------------------------------------------------
(* Bounds of the model *)

\* number of runs of the pipeline that may be in progress on the host
MaxRuns == 2
\* the largest run identifier the derivation is applied to in DeriveSpec
MaxId == 120
\* the largest HTTP status the health check is applied to in ProbeSpec
MaxStatus == 599

----------------------------------------------------------------------------
(* Program constants *)

\* app.js: const PORT = 8080
PORT == 8080
\* Jenkinsfile: the container side of -p ${testPort}:8080
ContainerPort == 8080
\* the modulus of README's "909${BUILD_NUMBER % 100}"
WrapAt == 100
\* largest host port docker run -p accepts (a TCP port has 16 bits)
MaxTcpPort == 65535

Runs == 1..MaxRuns

----------------------------------------------------------------------------
(* Strings: sequences of one-character strings *)

DigitChar == <<"0", "1", "2", "3", "4", "5", "6", "7", "8", "9">>

DigitVal(c) == (CHOOSE i \in 1..10 : DigitChar[i] = c) - 1

\* Groovy "${n}": the decimal representation of a non-negative integer
RECURSIVE ToStr(_)
ToStr(n) ==
    IF n < 10 THEN <<DigitChar[n + 1]>>
    ELSE ToStr(n \div 10) \o <<DigitChar[(n % 10) + 1]>>

\* docker's parse of the host port of -p <host>:<container>
RECURSIVE ParsePort(_)
ParsePort(s) ==
    IF Len(s) = 0 THEN 0
    ELSE 10 * ParsePort(SubSeq(s, 1, Len(s) - 1)) + DigitVal(s[Len(s)])

NamePrefix == <<"n", "o", "d", "e", "j", "s", "-", "t", "e", "s", "t", "-">>
PortPrefix == <<"9", "0">>
DocPortPrefix == <<"9", "0", "9">>

\* def containerName = "nodejs-test-${BUILD_NUMBER}"
containerName(n) == NamePrefix \o ToStr(n)

testPortLastTwo(n) == PortPrefix \o ToStr(n % WrapAt)
testPortLastDigit(n) == PortPrefix \o ToStr(n % 10)
\* def testPort = "90${BUILD_NUMBER}"
testPort(n) == PortPrefix \o ToStr(n)

\* README: def testPort = "909${BUILD_NUMBER % 100}"
docTestPort(n) == DocPortPrefix \o ToStr(n % WrapAt)

----------------------------------------------------------------------------
(* The environment block and the image references *)

\* environment { ... }
Environment ==
    [DOCKERHUB_CREDENTIALS_ID |-> "dockerhub-credentials",
     DOCKERHUB_USERNAME |-> "adityajareda",
     DOCKER_IMAGE_NAME |-> "nodejs-demo-app"]

Missing == "<missing property>"

\* ${name} in a step: the value the environment block gives the name; a name
\* it does not define makes the step throw
Resolve(name) ==
    IF name \in DOMAIN Environment THEN Environment[name] ELSE Missing

\* "${userVar}/${imageVar}:latest"
ImageRef(userVar, imageVar) ==
    <<Resolve(userVar), "/", Resolve(imageVar), ":", "latest">>

Resolves(ref) == \A i \in 1..Len(ref) : ref[i] # Missing

BuildImageRefOtherName == ImageRef("DOCKERHUB_USERNAME", "DOCKERHUB_IMAGE_NAME")
\* docker build -t ${DOCKERHUB_USERNAME}/${DOCKER_IMAGE_NAME}:latest .
BuildImageRef == ImageRef("DOCKERHUB_USERNAME", "DOCKER_IMAGE_NAME")
\* docker push ${DOCKERHUB_USERNAME}/${DOCKER_IMAGE_NAME}:latest
PushImageRef == ImageRef("DOCKERHUB_USERNAME", "DOCKER_IMAGE_NAME")
\* docker run ... ${DOCKERHUB_USERNAME}/${DOCKER_IMAGE_NAME}:latest
RunImageRef == ImageRef("DOCKERHUB_USERNAME", "DOCKER_IMAGE_NAME")

----------------------------------------------------------------------------
(* The HTTP service, app.js *)

HelloBody == "Hello World!"
NotFoundBody == "Cannot GET"

AppRespondOtherRoute(method, path) ==
    IF method = "GET" /\ path = "/hello"
    THEN [status |-> 200, body |-> HelloBody]
    ELSE [status |-> 404, body |-> NotFoundBody]

\* app.get('/', (req, res) => res.send('Hello World!')); express answers
\* any other route with 404
AppRespond(method, path) ==
    IF method = "GET" /\ path = "/"
    THEN [status |-> 200, body |-> HelloBody]
    ELSE [status |-> 404, body |-> NotFoundBody]

\* no answer: nothing accepts the connection
ConnFailed == [status |-> 0, body |-> ""]
\* no request was made yet
NoProbe == [status |-> -1, body |-> ""]

\* curl -f: exit 0 unless the connection fails (7) or the status is >= 400 (22)
CurlF(resp) ==
    IF resp.status = 0 THEN 7
    ELSE IF resp.status >= 400 THEN 22
    ELSE 0

CurlOrExitAlways(resp) == 1
CurlOrExitNever(resp) == 0
\* sh "curl -f http://localhost:${testPort} || exit 1"
CurlOrExit(resp) == IF CurlF(resp) = 0 THEN 0 ELSE 1

----------------------------------------------------------------------------
(* State *)

VARIABLES
    pc,              \* pc[r]: the step run r executes next
    BUILD_NUMBER,    \* BUILD_NUMBER[r]: the run identifier Jenkins gave run r
    nextBuildNumber, \* the job's build counter
    trace,           \* trace[r]: the commands run r has executed, in order
    failed,          \* failed[r]: the step whose command exited non-zero
    result,          \* result[r]: the run's result once its stages ended
    probe,           \* probe[r]: what the curl of run r received
    readyAtDelayEnd, \* readyAtDelayEnd[r]: the container listened when sleep ended
    containers,      \* the docker daemon's running containers
    loggedIn,        \* the docker client is logged in to the registry
    localLatest,     \* build whose image the host tags <user>/<image>:latest
    hubLatest,       \* build whose image the registry tags <user>/<image>:latest
    idA, idB,        \* two run identifiers the derivation is applied to
    derived,         \* the names and ports derived from idA and idB
    respStatus,      \* an outcome of the health check: a status, 0 for no answer
    stageExit        \* the exit code of the curl step for respStatus, -1 before

runVars == <<pc, BUILD_NUMBER, nextBuildNumber, trace, failed, result, probe,
             readyAtDelayEnd>>
hostVars == <<containers, loggedIn, localLatest, hubLatest>>
deriveVars == <<idA, idB, derived, respStatus, stageExit>>
vars == <<runVars, hostVars, deriveVars>>

\* the steps of the stages block, in the order of the Jenkinsfile
StepOrder == <<"install", "test", "build", "login", "push",
               "run", "sleep", "curl", "stop">>

StepIndex(step) == CHOOSE i \in 1..Len(StepOrder) : StepOrder[i] = step

\* the sh command of each step
Command(step) ==
    CASE step = "install" -> "npm ci"
      [] step = "test"    -> "npm test"
      [] step = "build"   -> "docker build"
      [] step = "login"   -> "docker login"
      [] step = "push"    -> "docker push"
      [] step = "run"     -> "docker run"
      [] step = "sleep"   -> "sleep"
      [] step = "curl"    -> "curl"
      [] step = "stop"    -> "docker stop"
      [] step = "post"    -> "docker logout"

DeploySteps == {"run", "sleep", "curl", "stop"}
DeployCommands == {Command(s) : s \in DeploySteps}
EarlySteps == {"install", "test", "build", "login", "push"}

NextInOrderNoDelay(step) ==
    IF step = "run" THEN "curl"
    ELSE IF StepIndex(step) = Len(StepOrder) THEN "post"
    ELSE StepOrder[StepIndex(step) + 1]

NextInOrder(step) ==
    IF StepIndex(step) = Len(StepOrder) THEN "post"
    ELSE StepOrder[StepIndex(step) + 1]

AfterStepContinue(step, exit) == NextInOrder(step)
AfterStepRetry(step, exit) == IF exit = 0 THEN NextInOrder(step) ELSE step
AfterStepSkipPost(step, exit) == IF exit = 0 THEN NextInOrder(step) ELSE "done"
\* a sh step whose command exits non-zero fails its stage, the remaining
\* stages are skipped and the post section runs
AfterStep(step, exit) == IF exit = 0 THEN NextInOrder(step) ELSE "post"

NotDerived == [done |-> FALSE, nameA |-> <<>>, nameB |-> <<>>,
               portA |-> <<>>, portB |-> <<>>, hostPortA |-> 0, hostPortB |-> 0]

IdleRuns ==
    /\ pc = [r \in Runs |-> "idle"]
    /\ BUILD_NUMBER = [r \in Runs |-> 0]
    /\ trace = [r \in Runs |-> <<>>]
    /\ failed = [r \in Runs |-> "none"]
    /\ result = [r \in Runs |-> "none"]
    /\ probe = [r \in Runs |-> NoProbe]
    /\ readyAtDelayEnd = [r \in Runs |-> FALSE]
    /\ containers = {}
    /\ loggedIn = FALSE
    /\ localLatest = 0
    /\ hubLatest = 0

Init ==
    /\ IdleRuns
    /\ nextBuildNumber = 1
    /\ idA = 1
    /\ idB = 1
    /\ derived = NotDerived
    /\ respStatus = 200
    /\ stageExit = -1

----------------------------------------------------------------------------
(* The steps of a run *)

\* run r has executed the command
Executed(r, cmd) == \E i \in 1..Len(trace[r]) : trace[r][i] = cmd

\* the bookkeeping every sh step of the stages block shares
Advance(r, exit) ==
    /\ pc' = [pc EXCEPT ![r] = AfterStep(pc[r], exit)]
    /\ trace' = [trace EXCEPT ![r] = Append(@, Command(pc[r]))]
    /\ failed' = [failed EXCEPT ![r] = IF exit = 0 THEN @ ELSE pc[r]]
    /\ result' = [result EXCEPT ![r] =
                    IF exit # 0 THEN "FAILURE"
                    ELSE IF NextInOrder(pc[r]) = "post" THEN "SUCCESS" ELSE @]
    /\ UNCHANGED <<BUILD_NUMBER, nextBuildNumber, deriveVars>>

\* the build numbers the next tracked run may get: the next one of the job's
\* counter, or the one WrapAt - 1 builds later (the builds between have
\* finished and are not tracked)
BuildNumbers(next) == {next, next + WrapAt - 1}

\* a push to main starts a run with a fresh, larger build number
Trigger(r) ==
    /\ pc[r] = "idle"
    /\ (IF r = 1 THEN TRUE ELSE pc[r - 1] # "idle")
    /\ \E n \in BuildNumbers(nextBuildNumber) :
         /\ BUILD_NUMBER' = [BUILD_NUMBER EXCEPT ![r] = n]
         /\ nextBuildNumber' = n + 1
    /\ pc' = [pc EXCEPT ![r] = "install"]
    /\ UNCHANGED <<trace, failed, result, probe, readyAtDelayEnd, hostVars,
                   deriveVars>>

\* sh 'npm ci --only=production'
Install(r) ==
    /\ pc[r] = "install"
    /\ \E exit \in {0, 1} : Advance(r, exit)
    /\ UNCHANGED <<probe, readyAtDelayEnd, hostVars>>

\* sh 'npm test'
Test(r) ==
    /\ pc[r] = "test"
    /\ \E exit \in {0, 1} : Advance(r, exit)
    /\ UNCHANGED <<probe, readyAtDelayEnd, hostVars>>

\* sh "docker build -t ${DOCKERHUB_USERNAME}/${DOCKER_IMAGE_NAME}:latest ."
Build(r) ==
    /\ pc[r] = "build"
    /\ \E envExit \in {0, 1} :
         LET exit == IF Resolves(BuildImageRef) THEN envExit ELSE 1
         IN  /\ Advance(r, exit)
             /\ localLatest' = IF exit = 0 THEN BUILD_NUMBER[r] ELSE localLatest
    /\ UNCHANGED <<probe, readyAtDelayEnd, containers, loggedIn, hubLatest>>

\* sh "echo ${DOCKER_PASS} | docker login -u ${DOCKER_USER} --password-stdin"
Login(r) ==
    /\ pc[r] = "login"
    /\ \E exit \in {0, 1} :
         /\ Advance(r, exit)
         /\ loggedIn' = IF exit = 0 THEN TRUE ELSE loggedIn
    /\ UNCHANGED <<probe, readyAtDelayEnd, containers, localLatest, hubLatest>>

\* sh "docker push ${DOCKERHUB_USERNAME}/${DOCKER_IMAGE_NAME}:latest"
Push(r) ==
    /\ pc[r] = "push"
    /\ \E envExit \in {0, 1} :
         LET found == Resolves(PushImageRef) /\ PushImageRef = BuildImageRef
             exit == IF loggedIn /\ found THEN envExit ELSE 1
         IN  /\ Advance(r, exit)
             /\ hubLatest' = IF exit = 0 THEN localLatest ELSE hubLatest
    /\ UNCHANGED <<probe, readyAtDelayEnd, containers, loggedIn, localLatest>>

\* sh "docker run --rm -d -p ${testPort}:8080 --name ${containerName} ...:latest"
DockerRun(r) ==
    /\ pc[r] = "run"
    /\ \E envExit \in {0, 125} :
         LET name == containerName(BUILD_NUMBER[r])
             hostPort == ParsePort(testPort(BUILD_NUMBER[r]))
             refused == \/ \E c \in containers : c.name = name
                        \/ \E c \in containers : c.hostPort = hostPort
                        \/ hostPort \notin 1..MaxTcpPort
                        \/ ~Resolves(RunImageRef)
                        \/ RunImageRef # BuildImageRef
             exit == IF refused THEN 125 ELSE envExit
         IN  /\ Advance(r, exit)
             /\ containers' =
                  IF exit = 0
                  THEN containers \cup {[name |-> name, hostPort |-> hostPort,
                                         port |-> ContainerPort,
                                         app |-> "starting",
                                         ref |-> RunImageRef,
                                         image |-> localLatest]}
                  ELSE containers
    /\ UNCHANGED <<probe, readyAtDelayEnd, loggedIn, localLatest, hubLatest>>

Listening(hostPort) ==
    \E c \in containers : c.hostPort = hostPort /\ c.port = PORT
                          /\ c.app = "listening"

\* the container run r started
Own(r) == {c \in containers : c.name = containerName(BUILD_NUMBER[r])}
OwnListening(r) == \E c \in Own(r) : c.app = "listening"

\* sh 'sleep 5'
Sleep(r) ==
    /\ pc[r] = "sleep"
    /\ Advance(r, 0)
    /\ readyAtDelayEnd' = [readyAtDelayEnd EXCEPT ![r] = OwnListening(r)]
    /\ UNCHANGED <<probe, hostVars>>

\* sh "curl -f http://localhost:${testPort} || exit 1"
Curl(r) ==
    /\ pc[r] = "curl"
    /\ LET hostPort == ParsePort(testPort(BUILD_NUMBER[r]))
           resp == IF Listening(hostPort) THEN AppRespond("GET", "/")
                   ELSE ConnFailed
       IN  /\ Advance(r, CurlOrExit(resp))
           /\ probe' = [probe EXCEPT ![r] = resp]
    /\ UNCHANGED <<readyAtDelayEnd, hostVars>>

\* docker stop: exit 1 for a name no container has
StopExit(found) == IF found = {} THEN 1 ELSE 0

\* sh "docker stop ${containerName}"
DockerStop(r) ==
    /\ pc[r] = "stop"
    /\ LET name == containerName(BUILD_NUMBER[r])
           found == {c \in containers : c.name = name}
       IN  /\ Advance(r, StopExit(found))
           /\ containers' = containers \ found
    /\ UNCHANGED <<probe, readyAtDelayEnd, loggedIn, localLatest, hubLatest>>

PostAlwaysStops(r) ==
    /\ pc[r] = "post"
    /\ pc' = [pc EXCEPT ![r] = "done"]
    /\ trace' = [trace EXCEPT ![r] = Append(@, Command("post"))]
    /\ loggedIn' = FALSE
    /\ containers' = containers \ Own(r)
    /\ UNCHANGED <<BUILD_NUMBER, nextBuildNumber, failed, result, probe,
                   readyAtDelayEnd, localLatest, hubLatest, deriveVars>>

PostAlwaysKeepsLogin(r) ==
    /\ pc[r] = "post"
    /\ pc' = [pc EXCEPT ![r] = "done"]
    /\ trace' = [trace EXCEPT ![r] = Append(@, Command("post"))]
    /\ loggedIn' = (loggedIn /\ Executed(r, "docker login"))
    /\ UNCHANGED <<BUILD_NUMBER, nextBuildNumber, failed, result, probe,
                   readyAtDelayEnd, containers, localLatest, hubLatest,
                   deriveVars>>

\* post { always { sh 'docker logout' } }
PostAlways(r) ==
    /\ pc[r] = "post"
    /\ pc' = [pc EXCEPT ![r] = "done"]
    /\ trace' = [trace EXCEPT ![r] = Append(@, Command("post"))]
    /\ loggedIn' = FALSE
    /\ UNCHANGED <<BUILD_NUMBER, nextBuildNumber, failed, result, probe,
                   readyAtDelayEnd, containers, localLatest, hubLatest,
                   deriveVars>>

----------------------------------------------------------------------------
(* The service inside a started container *)

\* app.listen(PORT, ...): the service binds its port
AppListen(c) ==
    /\ c \in containers
    /\ c.app = "starting"
    /\ containers' = (containers \ {c}) \cup {[c EXCEPT !.app = "listening"]}
    /\ UNCHANGED <<runVars, loggedIn, localLatest, hubLatest, deriveVars>>

\* the process exits before it binds; --rm removes the container
AppCrash(c) ==
    /\ c \in containers
    /\ c.app = "starting"
    /\ containers' = containers \ {c}
    /\ UNCHANGED <<runVars, loggedIn, localLatest, hubLatest, deriveVars>>

----------------------------------------------------------------------------
(* Specifications *)

RunStep(r) ==
    \/ Install(r) \/ Test(r) \/ Build(r) \/ Login(r) \/ Push(r)
    \/ DockerRun(r) \/ Sleep(r) \/ Curl(r) \/ DockerStop(r) \/ PostAlways(r)

Next ==
    \/ \E r \in Runs : Trigger(r)
    \/ \E r \in Runs : Install(r)
    \/ \E r \in Runs : Test(r)
    \/ \E r \in Runs : Build(r)
    \/ \E r \in Runs : Login(r)
    \/ \E r \in Runs : Push(r)
    \/ \E r \in Runs : DockerRun(r)
    \/ \E r \in Runs : Sleep(r)
    \/ \E r \in Runs : Curl(r)
    \/ \E r \in Runs : DockerStop(r)
    \/ \E r \in Runs : PostAlways(r)
    \/ \E c \in containers : AppListen(c)
    \/ \E c \in containers : AppCrash(c)

Spec == Init /\ [][Next]_vars

\* every command of a triggered run terminates, so the run takes its next step
FairSpec == Spec /\ \A r \in Runs : WF_vars(RunStep(r))

\* the derivation of lines 45-46 applied to two run identifiers
Derive ==
    /\ ~derived.done
    /\ derived' = [done |-> TRUE,
                   nameA |-> containerName(idA), nameB |-> containerName(idB),
                   portA |-> testPort(idA), portB |-> testPort(idB),
                   hostPortA |-> ParsePort(testPort(idA)),
                   hostPortB |-> ParsePort(testPort(idB))]
    /\ UNCHANGED <<runVars, hostVars, idA, idB, respStatus, stageExit>>

DeriveInit ==
    /\ IdleRuns
    /\ nextBuildNumber = 1
    /\ idA \in 1..MaxId
    /\ idB \in 1..MaxId
    /\ derived = NotDerived
    /\ respStatus = 200
    /\ stageExit = -1

DeriveNext == Derive

DeriveSpec == DeriveInit /\ [][DeriveNext]_vars

\* the outcomes of one GET: no answer (0) or a final HTTP status
ProbeOutcomes == {0} \cup (200..MaxStatus)

\* line 55 applied to one outcome of the GET
ProbeOnce ==
    /\ stageExit = -1
    /\ stageExit' = CurlOrExit([status |-> respStatus, body |-> ""])
    /\ UNCHANGED <<runVars, hostVars, idA, idB, derived, respStatus>>

ProbeInit ==
    /\ IdleRuns
    /\ nextBuildNumber = 1
    /\ idA = 1
    /\ idB = 1
    /\ derived = NotDerived
    /\ respStatus \in ProbeOutcomes
    /\ stageExit = -1

ProbeNext == ProbeOnce

ProbeSpec == ProbeInit /\ [][ProbeNext]_vars

----------------------------------------------------------------------------
(* Properties *)

Count(r, cmd) == Cardinality({i \in 1..Len(trace[r]) : trace[r][i] = cmd})
Ended(r) == pc[r] \in {"post", "done"}

\* what the 'Deploy and Test' stage of run r reports
DeployStage(r) ==
    IF failed[r] \in DeploySteps THEN "FAILURE"
    ELSE IF Ended(r) /\ failed[r] = "none" THEN "SUCCESS"
    ELSE IF pc[r] \in DeploySteps THEN "RUNNING"
    ELSE "NOT_RUN"

\* C1: a run in which the install, test, build, login or push command exited
\* non-zero never executes docker run, sleep, curl or docker stop.
C1_EarlyFailureSkipsDeploy ==
    \A r \in Runs :
        failed[r] \in EarlySteps =>
            \A cmd \in DeployCommands : ~Executed(r, cmd)

C1_Witness ==
    \E r \in Runs : pc[r] = "done" /\ failed[r] = "push"
                    /\ Executed(r, "docker push")

\* C2: every triggered run eventually executes docker logout, after a
\* success as after a failure, and the logout is the last command of the run.
C2_CleanupAlwaysRunsLast ==
    /\ \A r \in Runs :
         (pc[r] # "idle") ~>
             (pc[r] = "done" /\ trace[r][Len(trace[r])] = "docker logout")
    /\ [](\A r \in Runs :
            Executed(r, "docker logout") =>
                /\ pc[r] = "done"
                /\ Count(r, "docker logout") = 1
                /\ trace[r][Len(trace[r])] = "docker logout")

C2_Witness ==
    \E r, s \in Runs :
        /\ pc[r] = "done" /\ result[r] = "SUCCESS"
        /\ pc[s] = "done" /\ result[s] = "FAILURE"
        /\ Executed(r, "docker logout") /\ Executed(s, "docker logout")

\* C3: if the container a run started listens when the delay ends (the
\* service then answers GET / with 200), the 'Deploy and Test' stage reports
\* success and at the end of the run that container no longer runs.
C3_ReadySucceedsAndStops ==
    \A r \in Runs :
        (Ended(r) /\ readyAtDelayEnd[r]) =>
            /\ probe[r].status = 200
            /\ DeployStage(r) = "SUCCESS"
            /\ result[r] = "SUCCESS"
            /\ Own(r) = {}

C3_Witness ==
    \E r \in Runs : pc[r] = "done" /\ readyAtDelayEnd[r]
                    /\ Executed(r, "docker stop")

\* C4: a run whose container was started and never binds its port reaches a
\* failed 'Deploy and Test' stage and a failed run, and the stage never
\* reports success without the probe having been answered.
C4_NeverBoundFails ==
    /\ \A r \in Runs :
         (pc[r] = "sleep") ~>
             \/ OwnListening(r)
             \/ (DeployStage(r) = "FAILURE" /\ result[r] = "FAILURE")
    /\ [](\A r \in Runs :
            DeployStage(r) = "SUCCESS" => probe[r].status = 200)

C4_Witness ==
    \E r \in Runs : /\ pc[r] = "done" /\ failed[r] = "curl"
                    /\ probe[r] = ConnFailed /\ Own(r) = {}
                    /\ result[r] = "FAILURE"

\* C5: two runs that are in their 'Deploy and Test' stages at the same time
\* and have different build numbers derive different container names and
\* different host ports.
C5_OverlappingRunsDiffer ==
    \A r, s \in Runs :
        (r # s /\ pc[r] \in DeploySteps /\ pc[s] \in DeploySteps
           /\ BUILD_NUMBER[r] # BUILD_NUMBER[s]) =>
            /\ containerName(BUILD_NUMBER[r]) # containerName(BUILD_NUMBER[s])
            /\ testPort(BUILD_NUMBER[r]) # testPort(BUILD_NUMBER[s])
            /\ ParsePort(testPort(BUILD_NUMBER[r]))
                 # ParsePort(testPort(BUILD_NUMBER[s]))

C5_Witness ==
    \E r, s \in Runs :
        /\ r # s /\ pc[r] = "curl" /\ pc[s] = "curl"
        /\ Own(r) # {} /\ Own(s) # {}

\* C6: two run identifiers that differ and differ modulo 100 derive different
\* port strings, different host ports and different container names.
C6_DistinctModuloDistinctDerived ==
    (derived.done /\ idA # idB /\ idA % WrapAt # idB % WrapAt) =>
        /\ derived.portA # derived.portB
        /\ derived.hostPortA # derived.hostPortB
        /\ derived.nameA # derived.nameB

C6_Witness ==
    /\ derived.done
    /\ idA < WrapAt /\ idB > WrapAt /\ idA % WrapAt # idB % WrapAt
    /\ derived.hostPortA # derived.hostPortB

\* C7: for every positive build number the derived host port is a valid
\* unprivileged TCP port, a value in 1024..65535.
C7_PortValidUnprivileged ==
    derived.done =>
        /\ derived.hostPortA \in 1024..65535
        /\ derived.hostPortB \in 1024..65535

\* C8: the derived port is the fixed prefix followed by the build number
\* modulo 100, so build numbers congruent modulo 100 derive the same port.
C8_PortIsPrefixThenModulo ==
    derived.done =>
        /\ \/ derived.portA = PortPrefix \o ToStr(idA % WrapAt)
           \/ derived.portA = docTestPort(idA)
        /\ (idA % WrapAt = idB % WrapAt) => derived.portA = derived.portB

\* C9: a run whose curl failed has ended without executing docker stop, and
\* the post/always step of a run leaves the running containers as they are.
C9_ProbeFailureLeavesContainer ==
    /\ [](\A r \in Runs :
            failed[r] = "curl" => (Ended(r) /\ ~Executed(r, "docker stop")))
    /\ [][\A r \in Runs :
            (pc[r] = "post" /\ pc'[r] = "done") => containers' = containers]_vars

C9_Witness ==
    \E r \in Runs : /\ pc[r] = "done" /\ failed[r] = "curl"
                    /\ Own(r) # {}
                    /\ trace[r][Len(trace[r])] = "docker logout"

\* C10: no run executes curl, or any other command, more than once; after a
\* command failed the run executes no further command of the stages.
C10_NoRetryFirstFailureEnds ==
    \A r \in Runs :
        LET t == trace[r]
            n == Len(t)
            k == IF n > 0 /\ t[n] = "docker logout" THEN n - 1 ELSE n
        IN  /\ \A i, j \in 1..n : i < j => t[i] # t[j]
            /\ failed[r] # "none" =>
                 (Ended(r) /\ k >= 1 /\ t[k] = Command(failed[r]))

C10_Witness ==
    \E r \in Runs : /\ pc[r] = "done" /\ failed[r] = "curl"
                    /\ Count(r, "curl") = 1

\* the state of the deployment attempt of run r
AttemptState(r) ==
    IF failed[r] \in DeploySteps THEN "Failed"
    ELSE IF Ended(r) /\ failed[r] = "none" THEN "Stopped"
    ELSE IF pc[r] = "run" THEN "Created"
    ELSE IF pc[r] \in {"sleep", "curl"} THEN "Running"
    ELSE IF pc[r] = "stop" THEN "Probed"
    ELSE "None"

AttemptTerminal == {"Stopped", "Failed"}

\* the moves of the documented state machine
DocumentedMoves ==
    {<<"None", "Created">>, <<"Created", "Running">>, <<"Running", "Probed">>,
     <<"Running", "Failed">>, <<"Probed", "Stopped">>, <<"Probed", "Failed">>}

\* C11 (as stated): an attempt is never Stopped or Failed without docker run
\* having started the container and curl having probed it.
C11_TerminalOnlyThroughRunningAndProbed ==
    \A r \in Runs :
        AttemptState(r) \in AttemptTerminal =>
            /\ Executed(r, "docker run") /\ failed[r] # "run"
            /\ Executed(r, "curl")

\* C11 (amended): an attempt moves Created, Running, Probed, then Stopped or
\* Failed, or from Created straight to Failed when docker run fails; a Stopped
\* attempt was started and probed with a 200, a Failed one either failed at
\* docker run or was probed; nothing of the stage runs after a terminal
\* state, and every created attempt reaches Stopped or Failed.
C11_AttemptLifecycle ==
    /\ [][\A r \in Runs :
            /\ AttemptState(r)' # AttemptState(r) =>
                 <<AttemptState(r), AttemptState(r)'>>
                     \in DocumentedMoves \cup {<<"Created", "Failed">>}
            /\ AttemptState(r) \in AttemptTerminal =>
                 \/ trace'[r] = trace[r]
                 \/ trace'[r] = Append(trace[r], "docker logout")]_vars
    /\ [](\A r \in Runs :
            /\ AttemptState(r) = "Stopped" =>
                 /\ Executed(r, "docker run") /\ Executed(r, "curl")
                 /\ probe[r].status = 200
            /\ AttemptState(r) = "Failed" =>
                 \/ failed[r] = "run" /\ ~Executed(r, "curl")
                 \/ failed[r] # "run" /\ Executed(r, "curl"))
    /\ \A r \in Runs :
         (AttemptState(r) = "Created") ~> (AttemptState(r) \in AttemptTerminal)

C11_Witness ==
    \E r, s \in Runs :
        /\ pc[r] = "done" /\ failed[r] = "run" /\ ~Executed(r, "sleep")
        /\ pc[s] = "done" /\ AttemptState(s) = "Stopped"

\* what the step run s is about to execute yields in the current host state:
\* the exit codes it can end with, and the image or answer it acts on
PendingOutcome(s) ==
    CASE pc[s] = "push" ->
           [exits |-> IF loggedIn THEN {0, 1} ELSE {1}, on |-> localLatest]
      [] pc[s] = "run" ->
           [exits |-> IF \/ Own(s) # {}
                         \/ Listening(ParsePort(testPort(BUILD_NUMBER[s])))
                         \/ ParsePort(testPort(BUILD_NUMBER[s])) \notin 1..MaxTcpPort
                      THEN {125} ELSE {0, 125},
            on |-> localLatest]
      [] pc[s] = "curl" ->
           [exits |-> {IF Listening(ParsePort(testPort(BUILD_NUMBER[s])))
                       THEN CurlOrExit(AppRespond("GET", "/"))
                       ELSE CurlOrExit(ConnFailed)},
            on |-> 0]
      [] pc[s] = "stop" -> [exits |-> {StopExit(Own(s))}, on |-> 0]
      [] OTHER -> [exits |-> {0, 1}, on |-> 0]

\* C12: a step of one run never changes what the pending step of another run,
\* whose container name and port are different, yields.
C12_RunsShareOnlyNamesAndPorts ==
    [][\A r, s \in Runs :
         (/\ r # s
          /\ pc'[r] # pc[r]
          /\ pc[s] \notin {"idle", "done"}
          /\ containerName(BUILD_NUMBER[r]) # containerName(BUILD_NUMBER[s])
          /\ testPort(BUILD_NUMBER[r]) # testPort(BUILD_NUMBER[s]))
         => PendingOutcome(s)' = PendingOutcome(s)]_vars

\* C13: a GET / that reaches the listening service is answered with status
\* 200 and the body "Hello World!", and the container port every started
\* container maps its host port to is the port the service listens on.
C13_ServiceAnswersHelloOnMappedPort ==
    /\ \A c \in containers : c.port = PORT /\ c.port = 8080
    /\ \A r \in Runs :
         Executed(r, "curl") =>
            /\ probe[r] \in {ConnFailed, [status |-> 200, body |-> "Hello World!"]}
            /\ readyAtDelayEnd[r] =>
                 probe[r] = [status |-> 200, body |-> "Hello World!"]

C13_Witness ==
    \E r \in Runs :
        /\ Executed(r, "curl") /\ readyAtDelayEnd[r]
        /\ probe[r].body = "Hello World!"
        /\ \E c \in Own(r) : c.hostPort = 901 /\ c.app = "listening"

\* the position of a command in the trace of run r, 0 when it was not executed
Position(r, cmd) ==
    IF Executed(r, cmd)
    THEN CHOOSE i \in 1..Len(trace[r]) : trace[r][i] = cmd
    ELSE 0

\* C14: in a run the commands of the 'Deploy and Test' stage are executed in
\* the order docker run, sleep, curl, docker stop: curl only after docker run
\* succeeded and sleep returned, docker stop only after a successful curl.
C14_DeployStepsInOrder ==
    \A r \in Runs :
        /\ Executed(r, "sleep") =>
             /\ Executed(r, "docker run") /\ failed[r] # "run"
             /\ Position(r, "docker run") < Position(r, "sleep")
        /\ Executed(r, "curl") =>
             /\ Executed(r, "sleep")
             /\ Position(r, "sleep") < Position(r, "curl")
        /\ pc[r] = "stop" \/ Executed(r, "docker stop") =>
             /\ Executed(r, "curl") /\ failed[r] # "curl"
             /\ probe[r].status = 200
        /\ Executed(r, "docker stop") =>
             Position(r, "curl") < Position(r, "docker stop")

C14_Witness ==
    \E r \in Runs :
        /\ Executed(r, "docker stop")
        /\ Position(r, "docker run") + 1 = Position(r, "sleep")
        /\ Position(r, "sleep") + 1 = Position(r, "curl")
        /\ Position(r, "curl") + 1 = Position(r, "docker stop")

\* C15: the health check step fails for a connection failure and for every
\* status that is not 2xx, and succeeds only for a 2xx status.
C15_FailsUnlessSuccessStatus ==
    stageExit # -1 =>
        (stageExit = 0 <=> respStatus \in 200..299)

\* C16: the reference docker build tags, docker push pushes and docker run
\* runs is the same <username>/<image>:latest, every variable in it is defined
\* by the environment block, and every started container runs that reference.
C16_OneImageReference ==
    /\ BuildImageRef = <<"adityajareda", "/", "nodejs-demo-app", ":", "latest">>
    /\ PushImageRef = BuildImageRef
    /\ RunImageRef = BuildImageRef
    /\ Resolves(BuildImageRef) /\ Resolves(PushImageRef) /\ Resolves(RunImageRef)
    /\ \A c \in containers : c.ref = BuildImageRef /\ c.ref = PushImageRef

C16_Witness ==
    \E r \in Runs :
        /\ pc[r] = "sleep"
        /\ Executed(r, "docker build") /\ Executed(r, "docker push")
        /\ \E c \in Own(r) :
             c.ref = <<"adityajareda", "/", "nodejs-demo-app", ":", "latest">>

\* C17: the image a run starts in its 'Deploy and Test' stage is the image
\* that run's own build stage built.
C17_RunsOwnImage ==
    \A r \in Runs : \A c \in Own(r) : c.image = BUILD_NUMBER[r]

\* C18: a run that logged in and is about to push is still logged in: no
\* docker logout of another run happened since its login.
C18_LoggedInUntilOwnPush ==
    \A r \in Runs : pc[r] = "push" => loggedIn

\* a run between its successful docker login and its docker logout
HoldsLogin(r) ==
    /\ Executed(r, "docker login") /\ failed[r] # "login"
    /\ pc[r] # "done"

\* C19: a run attempts the push only after its own login succeeded, the step
\* that ends a run leaves the host logged out, also when the run failed before
\* its login, and the host is logged in only while some run is between its
\* login and its logout.
C19_PushAfterLoginLogoutAtEnd ==
    /\ [](\A r \in Runs :
            /\ (pc[r] = "push" \/ Executed(r, "docker push")) =>
                 (Executed(r, "docker login") /\ failed[r] # "login")
            /\ Executed(r, "docker push") =>
                 Position(r, "docker login") < Position(r, "docker push"))
    /\ [](loggedIn => \E r \in Runs : HoldsLogin(r))
    /\ [][\A r \in Runs :
            (pc[r] # "done" /\ pc'[r] = "done") => ~loggedIn']_vars

C19_Witness ==
    \E r, s \in Runs :
        /\ pc[r] = "done" /\ failed[r] = "install"
        /\ pc[s] = "done" /\ Executed(s, "docker push")
        /\ ~loggedIn

====
